---------------------------- MODULE Spec2Model ----------------------------
(* A model of generation_downloader.py: the incremental acquisition        *)
(* pipeline (main, download_all_countries, download_generation,            *)
(* aggregate_daily, get_latest_dates_by_country, validate_data).           *)
(*                                                                         *)
(* Time is counted in ticks of 1/TicksPerHour hour; a calendar day n is    *)
(* 2023-01-n.  Energy columns hold integers in units of                    *)
(* 1/(1000*TicksPerHour) GWh, so that power (MW) times an interval (ticks) *)
(* is exact; the division by 1000 is a change of unit.  Floating point     *)
(* rounding is not modelled.                                               *)
EXTENDS Integers, Sequences, FiniteSets, TLC

\* ------------------------------------------------------------------ bounds
\* Calendar days of the runs; calendar days of a series given to
\* validate_data; runs counted from a file the pipeline did not write;
\* ticks per hour.
MaxDay == 2
MaxVDay == 12
MaxRuns == 2
TicksPerHour == 2
\* Samples of a payload given to aggregate_daily alone, and the latest local
\* time of a sample, in ticks after 2023-01-01 00:00.
MaxSamples == 3
MaxTick == 4

\* ------------------------------------------------------- program constants
ZeroRunThreshold == 5
MissingListLimit == 10
HoursPerDay == 24

\* The tracked countries in processing order (the dict's insertion order):
\* the first two of the fourteen.
COUNTRIES == << "Germany", "France" >>

\* The same names in the order str comparison gives them (sort_values).
CountryNamesSorted ==
  << "Austria", "Belgium", "Czech Republic", "France", "Germany", "Greece",
     "Hungary", "Italy", "Netherlands", "Poland", "Portugal", "Romania",
     "Spain", "Sweden" >>

FUEL_TYPES == {"lignite", "hard_coal", "gas"}

TicksPerDay == HoursPerDay * TicksPerHour

\* 0.001 GWh in the model's energy unit.
ZeroEpsilon == TicksPerHour

Days == 1..MaxDay
VDays == 1..MaxVDay

\* ------------------------------------------------------------ small helpers
Min(a, b) == IF a < b THEN a ELSE b

SetMin(S) == CHOOSE x \in S : \A y \in S : x <= y

SetMax(S) == CHOOSE x \in S : \A y \in S : y <= x

Range(s) == {s[i] : i \in 1..Len(s)}

RECURSIVE SeqOfSet(_)
\* The elements of a finite set of integers in ascending order.
SeqOfSet(S) == IF S = {} THEN << >>
               ELSE LET m == SetMin(S) IN << m >> \o SeqOfSet(S \ {m})

RECURSIVE Flatten(_)
Flatten(ss) == IF ss = << >> THEN << >> ELSE Head(ss) \o Flatten(Tail(ss))

\* ------------------------------------------------------------------- dates
\* Text as the program prints and compares it: a date in '%Y-%m-%d' is the
\* zero-padded triple <<year, month, day>>, and str comparison is
\* lexicographic.  EmptyCell is an empty CSV cell, GarbageText a cell that
\* pd.to_datetime cannot parse.
EmptyCell == << >>
GarbageText == << 0 >>

Strftime(ord) == << 2023, 1, ord >>

\* '2023-01-05', or '2023-01-05 00:00:00' as str(Timestamp) writes it
IsIsoText(t) == Len(t) \in {3, 6} /\ t[1] = 2023 /\ t[2] = 1 /\ t[3] >= 1

ParseIso(t) == t[3]

RECURSIVE StrGreater(_, _)
\* a > b on str
StrGreater(a, b) ==
  IF a = << >> THEN FALSE
  ELSE IF b = << >> THEN TRUE
  ELSE IF Head(a) # Head(b) THEN Head(a) > Head(b)
  ELSE StrGreater(Tail(a), Tail(b))

\* Values a Date column holds in memory.
Timestamp(ord) == [type |-> "Timestamp", ord |-> ord, text |-> << >>]
DateObj(ord) == [type |-> "date", ord |-> ord, text |-> << >>]
StrObj(t) == [type |-> "str", ord |-> 0, text |-> t]
NaT == [type |-> "NaT", ord |-> 0, text |-> << >>]

NaN == "NaN"

\* pd.to_datetime on one cell: None when the cell cannot be parsed.
ToDatetime(v) ==
  CASE v.type = "Timestamp" -> v
    [] v.type = "date" -> Timestamp(v.ord)
    [] v.type = "NaT" -> NaT
    [] OTHER -> IF IsIsoText(v.text) THEN Timestamp(ParseIso(v.text)) ELSE NaT

CanParse(v) == v.type # "str" \/ IsIsoText(v.text)


\* ------------------------------------------------------------------ frames
\* A DataFrame: the columns it has and its rows in index order.  A row holds
\* every field; a field of a column the frame lacks is NaN / NaT.
DailyColumns ==
  {"Date", "Country", "Lignite_GWh", "Hard_Coal_GWh", "Gas_GWh",
   "Total_Fossil_GWh"}

EmptyFrame == [columns |-> {}, rows |-> << >>]

IsEmpty(df) == df.rows = << >>

RECURSIVE SumSeq(_)
SumSeq(s) == IF s = << >> THEN 0 ELSE Head(s) + SumSeq(Tail(s))

\* ---------------------------------------------------------- aggregate_daily
\* df['timestamp'].dt.date
DayOf(ts) == (ts \div TicksPerDay) + 1

\* for fuel_type in [...]: if fuel_type not in df.columns: df[fuel_type] = 0.0
FillFuels(df) ==
  [i \in 1..Len(df.rows) |->
     [timestamp |-> df.rows[i].timestamp,
      lignite   |-> IF "lignite" \in df.columns THEN df.rows[i].lignite ELSE 0,
      hard_coal |-> IF "hard_coal" \in df.columns THEN df.rows[i].hard_coal ELSE 0,
      gas       |-> IF "gas" \in df.columns THEN df.rows[i].gas ELSE 0]]

RECURSIVE InsertByTimestamp(_, _)
InsertByTimestamp(r, s) ==
  IF s = << >> THEN << r >>
  ELSE IF r.timestamp < Head(s).timestamp THEN << r >> \o s
  ELSE << Head(s) >> \o InsertByTimestamp(r, Tail(s))

RECURSIVE SortByTimestamp(_)
\* df.sort_values('timestamp')
SortByTimestamp(s) ==
  IF s = << >> THEN << >>
  ELSE InsertByTimestamp(s[Len(s)], SortByTimestamp(SubSeq(s, 1, Len(s) - 1)))

\* The hours (in ticks) each sample of the sorted sequence s is multiplied
\* by: diff(), the first set to the second, clip(upper=1.0); 1.0 for a
\* single sample.
Intervals(s) ==
  IF Len(s) > 1
  THEN [i \in 1..Len(s) |->
          Min(IF i = 1 THEN s[2].timestamp - s[1].timestamp
                       ELSE s[i].timestamp - s[i - 1].timestamp,
              TicksPerHour)]
  ELSE [i \in 1..Len(s) |-> TicksPerHour]

\* The samples in the order aggregate_daily multiplies them.
Ordered(s) == IF Len(s) > 1 THEN SortByTimestamp(s) ELSE s

\* One daily record: df.groupby('date').agg(sum), /1000, the total, Country.
DailyRow(s, iv, d, country) ==
  LET idx == SeqOfSet({i \in 1..Len(s) : DayOf(s[i].timestamp) = d})
      l == SumSeq([k \in 1..Len(idx) |-> s[idx[k]].lignite * iv[idx[k]]])
      h == SumSeq([k \in 1..Len(idx) |-> s[idx[k]].hard_coal * iv[idx[k]]])
      g == SumSeq([k \in 1..Len(idx) |-> s[idx[k]].gas * iv[idx[k]]])
  IN [Date |-> DateObj(d), Country |-> country,
      Lignite_GWh |-> l, Hard_Coal_GWh |-> h, Gas_GWh |-> g,
      Total_Fossil_GWh |-> l + h + g]

AggregateDaily(df, country) ==
  IF IsEmpty(df) THEN EmptyFrame
  ELSE LET s == Ordered(FillFuels(df))
           iv == Intervals(s)
           dates == SeqOfSet({DayOf(s[i].timestamp) : i \in 1..Len(s)})
       IN [columns |-> DailyColumns,
           rows |-> [k \in 1..Len(dates) |-> DailyRow(s, iv, dates[k], country)]]

\* ------------------------------------------------------------ validate_data
Warning(kind, col, from, to, count, dates) ==
  [kind |-> kind, col |-> col, from |-> from, to |-> to, count |-> count,
   dates |-> dates]

CheckCols == << "Gas_GWh", "Lignite_GWh", "Hard_Coal_GWh" >>

ColValue(row, col) ==
  CASE col = "Gas_GWh" -> row.Gas_GWh
    [] col = "Lignite_GWh" -> row.Lignite_GWh
    [] OTHER -> row.Hard_Coal_GWh

RECURSIVE InsertByDate(_, _)
InsertByDate(r, s) ==
  IF s = << >> THEN << r >>
  ELSE IF r.Date.ord < Head(s).Date.ord THEN << r >> \o s
  ELSE << Head(s) >> \o InsertByDate(r, Tail(s))

RECURSIVE SortByDate(_)
\* df.sort_values('Date')
SortByDate(s) ==
  IF s = << >> THEN << >>
  ELSE InsertByDate(s[Len(s)], SortByDate(SubSeq(s, 1, Len(s) - 1)))

\* The end date printed for a run closed by the record dated `date`:
\* (date - timedelta(days=1)).strftime('%Y-%m-%d')
ClosedRunEnd(date) == Strftime(date.ord - 1)

RECURSIVE ZeroScan(_, _, _, _, _, _)
\* The loop over df.iterrows() for one column, from row i on, with the
\* loop's current_zero_run and start_date, and the trailing check after it.
ZeroScan(rows, col, i, run, start, acc) ==
  IF i > Len(rows)
  THEN IF run > ZeroRunThreshold
       THEN Append(acc, Warning("zero", col, Strftime(start.ord),
                                Strftime(rows[Len(rows)].Date.ord), run, << >>))
       ELSE acc
  ELSE LET val == ColValue(rows[i], col)
           date == rows[i].Date
       IN IF val < ZeroEpsilon
          THEN ZeroScan(rows, col, i + 1, run + 1,
                        IF run = 0 THEN date ELSE start, acc)
          ELSE ZeroScan(rows, col, i + 1, 0, NaT,
                        IF run > ZeroRunThreshold
                        THEN Append(acc, Warning("zero", col, Strftime(start.ord),
                                                 ClosedRunEnd(date), run, << >>))
                        ELSE acc)

ZeroWarnings(rows) ==
  Flatten([c \in 1..Len(CheckCols) |-> ZeroScan(rows, CheckCols[c], 1, 0, NaT, << >>)])

\* set(date_range) - set(df['Date']): date_range holds Timestamps, the
\* column holds whatever type its cells have; values of different types are
\* never equal.
MissingDates(rows) ==
  LET lo == SetMin({rows[i].Date.ord : i \in 1..Len(rows)})
      hi == SetMax({rows[i].Date.ord : i \in 1..Len(rows)})
  IN {Timestamp(d) : d \in lo..hi} \ {rows[i].Date : i \in 1..Len(rows)}

\* The gap check: [raised |-> TRUE] when df['Date'].min().date() is
\* evaluated on a value without a date() method.
GapCheck(rows) ==
  LET ords == {rows[i].Date.ord : i \in 1..Len(rows)}
      lo == SetMin(ords)
      hi == SetMax(ords)
      first == CHOOSE r \in Range(rows) : r.Date.ord = lo
      missing == MissingDates(rows)
      listed == SeqOfSet({m.ord : m \in missing})
  IN IF Len(rows) > 1 /\ (hi - lo + 1) # Len(rows)
     THEN IF Cardinality(missing) < MissingListLimit
          THEN [raised |-> FALSE,
                warnings |-> << Warning("missing_list", "", << >>, << >>, 0,
                                        [k \in 1..Len(listed) |-> Strftime(listed[k])]) >>]
          ELSE IF first.Date.type = "Timestamp"
          THEN [raised |-> FALSE,
                warnings |-> << Warning("missing_count", "", Strftime(lo),
                                        Strftime(hi), Cardinality(missing), << >>) >>]
          ELSE [raised |-> TRUE, warnings |-> << >>]
     ELSE [raised |-> FALSE, warnings |-> << >>]

NoDataWarning == Warning("no_data", "", << >>, << >>, 0, << >>)

\* validate_data(df, country_name): the warnings it returns, or raised.
ValidateData(df) ==
  IF IsEmpty(df) THEN [raised |-> FALSE, warnings |-> << NoDataWarning >>]
  ELSE LET rows == SortByDate(df.rows)
           gap == GapCheck(rows)
       IN IF gap.raised THEN [raised |-> TRUE, warnings |-> << >>]
          ELSE [raised |-> FALSE, warnings |-> ZeroWarnings(rows) \o gap.warnings]


\* ------------------------------------------------------- the persisted file
\* The file on disk: whether it exists, whether pd.read_csv can read it, the
\* key columns its header has, and its rows as text.
NoFile == [exists |-> FALSE, readable |-> FALSE, columns |-> {}, rows |-> << >>]

None == [isNone |-> TRUE, columns |-> {}, rows |-> << >>]

Some(df) == [isNone |-> FALSE, columns |-> df.columns, rows |-> df.rows]

\* pd.read_csv: text cells, an empty cell or a cell of a column the file
\* lacks is NaN.
ReadCsv(f) ==
  [columns |-> f.columns,
   rows |-> [k \in 1..Len(f.rows) |->
      [f.rows[k] EXCEPT
         !.Date = IF "Date" \in f.columns /\ @ # EmptyCell THEN StrObj(@) ELSE NaT,
         !.Country = IF "Country" \in f.columns /\ @ # "" THEN @ ELSE NaN]]]

\* df['Date'] = pd.to_datetime(df['Date']), when every cell parses
ParseDates(df) ==
  [df EXCEPT !.rows = [k \in 1..Len(df.rows) |->
                         [df.rows[k] EXCEPT !.Date = ToDatetime(@)]]]

DatesParse(df) == \A k \in 1..Len(df.rows) : CanParse(df.rows[k].Date)

\* str(Timestamp) in a column of mixed types, '%Y-%m-%d' in a datetime column
LongText(ord) == << 2023, 1, ord, 0, 0, 0 >>

\* df.to_csv(output_file, index=False)
ToCsv(df) ==
  LET mixed == \E k \in 1..Len(df.rows) : df.rows[k].Date.type = "str"
      cell(v) == CASE v.type = "str" -> v.text
                   [] v.type = "NaT" -> EmptyCell
                   [] OTHER -> IF mixed THEN LongText(v.ord) ELSE Strftime(v.ord)
  IN [exists |-> TRUE, readable |-> TRUE,
      columns |-> df.columns \cap {"Date", "Country"},
      rows |-> [k \in 1..Len(df.rows) |->
                  [df.rows[k] EXCEPT !.Date = cell(@),
                                     !.Country = IF @ = NaN THEN "" ELSE @]]]

\* --------------------------------------------- get_latest_dates_by_country
NoMap == [isNone |-> TRUE, map |-> << >>]

\* Mutant: df['Date'].max() for every country, without the groupby.
GroupMaxOfAll(df) ==
  LET cs == {df.rows[k].Country : k \in 1..Len(df.rows)} \ {NaN}
      ords == {df.rows[k].Date.ord : k \in
                 {j \in 1..Len(df.rows) : df.rows[j].Date.type = "Timestamp"}}
  IN [c \in cs |-> IF ords = {} THEN NaT ELSE Timestamp(SetMax(ords))]

\* df.groupby('Country')['Date'].max().to_dict(): NaN countries are dropped,
\* NaT dates skipped; a country with no date at all maps to NaT.
GroupMax(df) ==
  LET cs == {df.rows[k].Country : k \in 1..Len(df.rows)} \ {NaN}
      ords(c) == {df.rows[k].Date.ord : k \in
                    {j \in 1..Len(df.rows) : df.rows[j].Country = c
                                             /\ df.rows[j].Date.type = "Timestamp"}}
  IN [c \in cs |-> IF ords(c) = {} THEN NaT ELSE Timestamp(SetMax(ords(c)))]

EmptyDict == [c \in {} |-> NaT]

GetLatestDatesByCountry(f) ==
  IF ~f.exists THEN EmptyDict
  ELSE IF ~f.readable THEN EmptyDict
  ELSE LET df == ReadCsv(f)
       IN IF "Date" \in df.columns /\ "Country" \in df.columns
          THEN IF DatesParse(df) THEN GroupMax(ParseDates(df)) ELSE EmptyDict
          ELSE EmptyDict

\* ------------------------------------------------------ download_generation
\* What the upstream API answers to one request.
Readings ==
  {[columns |-> FUEL_TYPES, lignite |-> 1, hard_coal |-> 1, gas |-> 1],
   [columns |-> {"gas"}, lignite |-> 0, hard_coal |-> 0, gas |-> 2]}

NoReading == [columns |-> {}, lignite |-> 0, hard_coal |-> 0, gas |-> 0]

\* request_error: requests raises a RequestException; no_data: empty JSON or
\* no 'unix_seconds'; malformed: a payload whose parsing raises anything
\* else (series of different lengths, non-numeric timestamps); data: one
\* sample at 00:00 of each day of `days`.
Responses ==
  {[kind |-> k, days |-> {}, reading |-> NoReading] :
      k \in {"request_error", "no_data", "malformed"}}
  \cup {[kind |-> "data", days |-> S, reading |-> r] :
          S \in SUBSET Days, r \in Readings}

HourlyFrame(S, cols, reading) ==
  LET ds == SeqOfSet(S)
  IN [columns |-> cols,
      rows |-> [k \in 1..Len(ds) |->
                  [timestamp |-> (ds[k] - 1) * TicksPerDay,
                   lignite   |-> reading[ds[k]].lignite,
                   hard_coal |-> reading[ds[k]].hard_coal,
                   gas       |-> reading[ds[k]].gas]]]

\* download_generation: the frame, None, or an exception that is not caught.
DownloadGeneration(resp) ==
  CASE resp.kind = "request_error" -> [raised |-> FALSE, df |-> None]
    [] resp.kind = "no_data" -> [raised |-> FALSE, df |-> None]
    [] resp.kind = "malformed" -> [raised |-> TRUE, df |-> None]
    [] OTHER ->
         [raised |-> FALSE,
          df |-> Some(HourlyFrame(resp.days, resp.reading.columns,
                                  [d \in resp.days |-> resp.reading]))]

\* ------------------------------------------------------------- the merge
\* pd.concat(frames, ignore_index=True)
Concat(frames) ==
  [columns |-> UNION {frames[k].columns : k \in 1..Len(frames)},
   rows |-> Flatten([k \in 1..Len(frames) |-> frames[k].rows])]

SameKey(a, b) == a.Date = b.Date /\ a.Country = b.Country

\* Mutant: keep='first', the stored record wins.
DropDuplicatesKeepFirst(df) ==
  LET keep == {k \in 1..Len(df.rows) :
                 \A j \in 1..(k - 1) : ~SameKey(df.rows[k], df.rows[j])}
      idx == SeqOfSet(keep)
  IN [df EXCEPT !.rows = [k \in 1..Len(idx) |-> df.rows[idx[k]]]]

\* Mutant: nothing is dropped.
DropDuplicatesNone(df) == df

\* df.drop_duplicates(subset=['Date', 'Country'], keep='last')
DropDuplicates(df) ==
  LET keep == {k \in 1..Len(df.rows) :
                 \A j \in (k + 1)..Len(df.rows) : ~SameKey(df.rows[k], df.rows[j])}
      idx == SeqOfSet(keep)
  IN [df EXCEPT !.rows = [k \in 1..Len(idx) |-> df.rows[idx[k]]]]

Index(seq, x) == CHOOSE k \in 1..Len(seq) : seq[k] = x

\* The order sort_values gives a Date column: Timestamps ascending, then
\* (where the build sorts mixed types at all) str ascending, NaT last.
DateLess(x, y) ==
  CASE x.type = "NaT" -> FALSE
    [] y.type = "NaT" -> TRUE
    [] x.type = "str" /\ y.type = "str" -> StrGreater(y.text, x.text)
    [] x.type = "str" -> FALSE
    [] y.type = "str" -> TRUE
    [] OTHER -> x.ord < y.ord

CountryLess(a, b) ==
  CASE a = NaN -> FALSE
    [] b = NaN -> TRUE
    [] OTHER -> Index(CountryNamesSorted, a) < Index(CountryNamesSorted, b)

RowLess(a, b) ==
  \/ DateLess(a.Date, b.Date)
  \/ a.Date = b.Date /\ CountryLess(a.Country, b.Country)

RECURSIVE InsertRow(_, _)
InsertRow(r, s) ==
  IF s = << >> THEN << r >>
  ELSE IF RowLess(r, Head(s)) THEN << r >> \o s
  ELSE << Head(s) >> \o InsertRow(r, Tail(s))

RECURSIVE SortRows(_)
SortRows(s) ==
  IF s = << >> THEN << >>
  ELSE InsertRow(s[Len(s)], SortRows(SubSeq(s, 1, Len(s) - 1)))

\* final_df.sort_values(['Date', 'Country'])
SortValues(df) == [df EXCEPT !.rows = SortRows(@)]

\* Whether sort_values meets a Date column of Timestamps and str, which it
\* sorts or refuses (TypeError) depending on the pandas build.
MixedDates(df) ==
  /\ \E k \in 1..Len(df.rows) : df.rows[k].Date.type = "str"
  /\ \E k \in 1..Len(df.rows) : df.rows[k].Date.type = "Timestamp"

\* combined_new: pd.concat(all_data), Date through pd.to_datetime
CombinedNew(frames) == ParseDates(Concat(frames))

\* Mutant: the concatenation without drop_duplicates.
ConcatenatedOnly(existing, new) ==
  IF existing.isNone THEN new
  ELSE Concat(<< [columns |-> existing.columns, rows |-> existing.rows], new >>)

\* Lines 269-275: final_df before it is sorted.
Deduplicated(existing, new) ==
  IF existing.isNone THEN new
  ELSE DropDuplicates(Concat(<< [columns |-> existing.columns, rows |-> existing.rows],
                                new >>))

\* Lines 269-277: the frame that is saved.
Merge(existing, new) == SortValues(Deduplicated(existing, new))

\* Lines 222-228: existing_df; a failure after read_csv leaves the frame as
\* read.
LoadExisting(f) ==
  IF ~f.exists THEN None
  ELSE IF ~f.readable THEN None
  ELSE LET df == ReadCsv(f)
       IN IF "Date" \in df.columns /\ DatesParse(df)
          THEN Some(ParseDates(df))
          ELSE Some(df)

\* ---------------------------------------------------------------- variables
VARIABLES
  csv,              \* the file eu_generation_daily.csv
  pc,               \* "idle": no run in progress; "loop": inside the for
                    \* loop or past it; "done": the run is over
  runs,             \* runs counted so far
  start_date,       \* download_all_countries' start_date
  end_date,         \* download_all_countries' end_date
  incremental_map,  \* its incremental_map (NoMap: None)
  existing_df,      \* its existing_df
  i,                \* the position of the for loop in COUNTRIES
  all_data,         \* its all_data
  outcome,          \* how the last run ended
  pre,              \* the file as the run found it
  log,              \* per country processed in this run: start, skipped, requested
  vin,              \* the frame given to validate_data (SpecValidate) or
                    \* to aggregate_daily (SpecAggregate)
  vout,             \* validate_data's result (SpecValidate)
  intervals         \* aggregate_daily's intervals, in ticks (SpecAggregate)

pipeVars ==
  << csv, pc, runs, start_date, end_date, incremental_map, existing_df, i,
     all_data, outcome, pre, log >>

valVars == << vin, vout, intervals >>

vars ==
  << csv, pc, runs, start_date, end_date, incremental_map, existing_df, i,
     all_data, outcome, pre, log, vin, vout, intervals >>

Pending == [state |-> "pending", warnings |-> << >>]

\* --------------------------------------------------------------- the runs
\* '2023-01-01'
DefaultStart == << 2023, 1, 1 >>

\* --start / --end as given on the command line; EmptyCell is "not given".
\* --end not given is yesterday's date, one of the days.
StartArgs == {EmptyCell, Strftime(2)}
EndArgs == {Strftime(d) : d \in Days}

InitPipe(f) ==
  /\ csv = f
  /\ pc = "idle"
  /\ runs = 0
  /\ start_date = DefaultStart
  /\ end_date = DefaultStart
  /\ incremental_map = NoMap
  /\ existing_df = None
  /\ i = 1
  /\ all_data = << >>
  /\ outcome = "none"
  /\ pre = f
  /\ log = << >>
  /\ intervals = << >>

Init ==
  /\ InitPipe(NoFile)
  /\ vin = EmptyFrame
  /\ vout = Pending

\* __main__ (lines 300-320) and download_all_countries up to its loop
\* (lines 219-228).
Start ==
  /\ pc = "idle"
  /\ \E argStart \in StartArgs, argEnd \in EndArgs, argIncremental \in BOOLEAN :
       /\ incremental_map' =
            IF argIncremental \/ (argStart = EmptyCell /\ csv.exists)
            THEN [isNone |-> FALSE, map |-> GetLatestDatesByCountry(csv)]
            ELSE NoMap
       /\ start_date' = IF argStart = EmptyCell THEN DefaultStart ELSE argStart
       /\ end_date' = argEnd
  /\ existing_df' = LoadExisting(csv)
  /\ pre' = csv
  /\ pc' = "loop"
  /\ i' = 1
  /\ all_data' = << >>
  /\ log' = << >>
  /\ outcome' = "running"
  /\ UNCHANGED << csv, vin, vout, intervals >>

\* A run begins; any number of runs follow one another.
Main == Start /\ UNCHANGED runs

\* A run begins, the runs being counted up to MaxRuns.
MainCounted ==
  /\ runs < MaxRuns
  /\ Start
  /\ runs' = runs + 1

\* An exception leaves download_all_countries: the run is over, nothing is
\* written.
Raised ==
  /\ pc' = "done"
  /\ outcome' = "raised"
  /\ UNCHANGED << i, all_data, log >>

LogEntry(c, start, skipped, requested) ==
  [country |-> c, start |-> start, skipped |-> skipped, requested |-> requested]

\* if incremental_map and country_name in incremental_map
InMap(c) == ~incremental_map.isNone /\ c \in DOMAIN incremental_map.map

\* Mutant: the resume starts on the latest stored date itself.
CurrentStartAtLatest(c) ==
  IF InMap(c) THEN Strftime(incremental_map.map[c].ord) ELSE start_date

\* Lines 234-238: current_start of country c (NaT.strftime raises).
CurrentStart(c) ==
  IF InMap(c) THEN Strftime(incremental_map.map[c].ord + 1) ELSE start_date

StartRaises(c) == InMap(c) /\ incremental_map.map[c].type = "NaT"

\* Mutant: current_start >= end_date
SkipsFromEndDate(current_start) ==
  current_start = end_date \/ StrGreater(current_start, end_date)

\* if current_start > end_date: continue
Skips(current_start) == StrGreater(current_start, end_date)

\* One iteration of the loop (lines 230-262).
ProcessCountry ==
  /\ pc = "loop"
  /\ i <= Len(COUNTRIES)
  /\ \E resp \in Responses :
       LET c == COUNTRIES[i]
           current_start == CurrentStart(c)
           hourly == DownloadGeneration(resp)
           daily_df == AggregateDaily(hourly.df, c)
           warnings == ValidateData(daily_df)
           next(data, skipped, requested) ==
             /\ pc' = "loop"
             /\ i' = i + 1
             /\ all_data' = data
             /\ log' = Append(log, LogEntry(c, current_start, skipped, requested))
             /\ UNCHANGED outcome
       IN CASE StartRaises(c) -> Raised
            [] Skips(current_start) -> next(all_data, TRUE, FALSE)
            [] hourly.raised -> Raised
            [] hourly.df.isNone \/ IsEmpty(hourly.df) -> next(all_data, FALSE, TRUE)
            [] warnings.raised -> Raised
            [] OTHER -> next(Append(all_data, daily_df), FALSE, TRUE)
  /\ UNCHANGED << csv, runs, start_date, end_date, incremental_map, existing_df,
                  pre, vin, vout, intervals >>

\* Mutant: the merge and the save without the test of line 264.
MergeAndSaveAlways ==
  /\ pc = "loop"
  /\ i > Len(COUNTRIES)
  /\ LET combined_new == CombinedNew(all_data)
         builds == IF MixedDates(Deduplicated(existing_df, combined_new))
                   THEN BOOLEAN ELSE {TRUE}
     IN \E sorts \in builds :
          IF sorts
          THEN /\ outcome' = "success"
               /\ csv' = ToCsv(Merge(existing_df, combined_new))
          ELSE /\ outcome' = "raised"
               /\ UNCHANGED csv
  /\ pc' = "done"
  /\ UNCHANGED << runs, start_date, end_date, incremental_map, existing_df, i,
                  all_data, pre, log, vin, vout, intervals >>

\* Lines 264-289: merge, sort, save.  `sorts` is whether this pandas build
\* sorts a Date column of mixed types.
MergeAndSave ==
  /\ pc = "loop"
  /\ i > Len(COUNTRIES)
  /\ IF all_data # << >>
     THEN LET combined_new == CombinedNew(all_data)
              builds == IF MixedDates(Deduplicated(existing_df, combined_new))
                        THEN BOOLEAN ELSE {TRUE}
          IN \E sorts \in builds :
               IF sorts
               THEN /\ outcome' = "success"
                    /\ csv' = ToCsv(Merge(existing_df, combined_new))
               ELSE /\ outcome' = "raised"
                    /\ UNCHANGED csv
     ELSE /\ outcome' = "nodata"
          /\ UNCHANGED csv
  /\ pc' = "done"
  /\ UNCHANGED << runs, start_date, end_date, incremental_map, existing_df, i,
                  all_data, pre, log, vin, vout, intervals >>

\* The script ends (the last statement of __main__, or the traceback of an
\* exception): the process and what it held in memory are gone, the file
\* stays.
Exit ==
  /\ pc = "done"
  /\ pc' = "idle"
  /\ start_date' = DefaultStart
  /\ end_date' = DefaultStart
  /\ incremental_map' = NoMap
  /\ existing_df' = None
  /\ i' = 1
  /\ all_data' = << >>
  /\ outcome' = "none"
  /\ pre' = csv
  /\ log' = << >>
  /\ UNCHANGED << csv, runs, vin, vout, intervals >>

Next == Main \/ ProcessCountry \/ MergeAndSave \/ Exit

\* ------------------------------------------------ files the run did not write
CsvRow(date, country, l, h, g, t) ==
  [Date |-> date, Country |-> country, Lignite_GWh |-> l, Hard_Coal_GWh |-> h,
   Gas_GWh |-> g, Total_Fossil_GWh |-> t]

StoredFile(readable, columns, rows) ==
  [exists |-> TRUE, readable |-> readable, columns |-> columns, rows |-> rows]

\* A file that pd.read_csv rejects; a file without a Date column; one
\* without a Country column; one with a date cell that does not parse; and a
\* well-formed file whose stored total is not the sum of its fuels.
StoredFiles ==
  {StoredFile(FALSE, {}, << >>),
   StoredFile(TRUE, {"Country"}, << CsvRow(EmptyCell, "Germany", 1, 1, 1, 3) >>),
   StoredFile(TRUE, {"Date"}, << CsvRow(Strftime(1), "", 1, 1, 1, 3) >>),
   StoredFile(TRUE, {"Date", "Country"},
              << CsvRow(Strftime(1), "France", 1, 1, 1, 3),
                 CsvRow(GarbageText, "Germany", 1, 1, 1, 3) >>),
   StoredFile(TRUE, {"Date", "Country"},
              << CsvRow(Strftime(1), "Germany", 1, 1, 1, 5) >>)}

NextStored == MainCounted \/ ProcessCountry \/ MergeAndSave \/ Exit

InitStored ==
  /\ \E f \in StoredFiles : InitPipe(f)
  /\ vin = EmptyFrame
  /\ vout = Pending

SpecStored == InitStored /\ [][NextStored]_vars

Spec == Init /\ [][Next]_vars

\* ------------------------------------------- validate_data on drawn series
\* What one sample of a drawn payload reports (MW per fuel); lignite is not
\* among the payload's production types.
VReadings ==
  {[lignite |-> 0, hard_coal |-> 3, gas |-> 0],
   [lignite |-> 0, hard_coal |-> 0, gas |-> 5]}

InitValidate ==
  /\ InitPipe(NoFile)
  /\ \E S \in (SUBSET VDays) \ {{}} :
       \E reading \in [S -> VReadings] :
         vin = AggregateDaily(HourlyFrame(S, {"hard_coal", "gas"}, reading),
                              COUNTRIES[1])
  /\ vout = Pending

\* warnings = validate_data(daily_df, country_name)
Validate ==
  /\ vout.state = "pending"
  /\ LET r == ValidateData(vin)
     IN vout' = [state |-> IF r.raised THEN "raised" ELSE "returned",
                 warnings |-> r.warnings]
  /\ UNCHANGED << vin, intervals, csv, pc, runs, start_date, end_date, incremental_map,
                  existing_df, i, all_data, outcome, pre, log >>

NextValidate == Validate

SpecValidate == InitValidate /\ [][NextValidate]_vars

\* ---------------------------------------- aggregate_daily on drawn samples
\* The local times datetime.fromtimestamp gives the samples of a payload, in
\* payload order: any order, and equal times where two instants share a
\* wall-clock time (the hour repeated when daylight saving time ends) or the
\* payload repeats an instant.
SampleTimes ==
  UNION {[1..n -> 0..MaxTick] : n \in 1..MaxSamples}

\* pd.DataFrame(result) for a payload of hard coal and gas at 1 MW.
SampleFrame(ts) ==
  [columns |-> {"hard_coal", "gas"},
   rows |-> [k \in 1..Len(ts) |->
               [timestamp |-> ts[k], lignite |-> 0, hard_coal |-> 1, gas |-> 1]]]

InitAggregate ==
  /\ InitPipe(NoFile)
  /\ \E ts \in SampleTimes : vin = SampleFrame(ts)
  /\ vout = Pending

\* daily_df = aggregate_daily(hourly_df, country_name): the intervals its
\* lines 95-108 multiply the samples by.
Aggregate ==
  /\ intervals = << >>
  /\ ~IsEmpty(vin)
  /\ intervals' = Intervals(Ordered(FillFuels(vin)))
  /\ UNCHANGED << vin, vout, csv, pc, runs, start_date, end_date,
                  incremental_map, existing_df, i, all_data, outcome, pre,
                  log >>

NextAggregate == Aggregate

SpecAggregate == InitAggregate /\ [][NextAggregate]_vars

\* ------------------------------------------- the merge on drawn datasets
\* The daily frames one country can contribute to all_data.
DailyFrames(c) ==
  {AggregateDaily(HourlyFrame(S, r.columns, [d \in S |-> r]), c) :
     S \in (SUBSET Days) \ {{}}, r \in Readings}

\* The lists all_data can be after the loop went through the first k
\* countries.
RECURSIVE Gathered(_)
Gathered(k) ==
  IF k = 0 THEN {<< >>}
  ELSE LET before == Gathered(k - 1)
       IN before \cup
          {Append(a, f) : a \in before, f \in DailyFrames(COUNTRIES[k])}

\* The non-empty lists of new records a run can merge.
NewRecordSets == Gathered(Len(COUNTRIES)) \ {<< >>}

\* The datasets a run can find: no file, or a file the pipeline wrote.
Datasets ==
  {NoFile} \cup {ToCsv(Merge(None, CombinedNew(a))) : a \in NewRecordSets}

InitMerge ==
  /\ \E E \in Datasets : csv = E /\ pre = E
  /\ \E N \in NewRecordSets : all_data = N
  /\ pc = "merge"
  /\ runs = 0
  /\ start_date = DefaultStart
  /\ end_date = DefaultStart
  /\ incremental_map = NoMap
  /\ existing_df = None
  /\ i = Len(COUNTRIES) + 1
  /\ outcome = "running"
  /\ log = << >>
  /\ intervals = << >>
  /\ vin = EmptyFrame
  /\ vout = Pending

\* Lines 221-228 and 264-280 with the same all_data: the file is loaded, the
\* new records are merged into it, the result is saved.  The new records are
\* merged twice.
MergeNew ==
  /\ pc = "merge"
  /\ runs < 2
  /\ LET existing == LoadExisting(csv)
         combined_new == CombinedNew(all_data)
         builds == IF MixedDates(Deduplicated(existing, combined_new))
                   THEN BOOLEAN ELSE {TRUE}
     IN /\ existing_df' = existing
        /\ \E sorts \in builds :
             IF sorts
             THEN /\ outcome' = "success"
                  /\ csv' = ToCsv(Merge(existing, combined_new))
             ELSE /\ outcome' = "raised"
                  /\ UNCHANGED csv
  /\ pre' = csv
  /\ runs' = runs + 1
  /\ UNCHANGED << pc, start_date, end_date, incremental_map, i, all_data, log,
                  vin, vout, intervals >>

NextMerge == MergeNew

SpecMerge == InitMerge /\ [][NextMerge]_vars

\* ================================================================== claims
RunEnded == pc = "done"

Saved == pc = "done" /\ outcome = "success"

KeyOf(row) == << row.Date, row.Country >>

\* The new records of the run as text, as they would stand in a file.
NewRows == Range(ToCsv(CombinedNew(all_data)).rows)

RowsAt(f, key) == {r \in Range(f.rows) : KeyOf(r) = key}

\* The records of one country in a file, in file order.
RowsOfCountry(f, c) == SelectSeq(f.rows, LAMBDA r : r.Country = c)

\* C1: when a run saves, every new record whose (Date, Country) key was
\* already in the file the run found is, in the file the run wrote, the only
\* record of that key: the new values stand, the old ones are gone.
C1_NewRecordWins ==
  Saved =>
    \A n \in NewRows :
      RowsAt(pre, KeyOf(n)) # {} => RowsAt(csv, KeyOf(n)) = {n}

\* C1 witness: a later run has saved a record whose key an earlier run had
\* stored with other values.
C1_Witness ==
  /\ Saved
  /\ pre.exists
  /\ \E n \in NewRows :
       /\ RowsAt(pre, KeyOf(n)) # {}
       /\ n \notin RowsAt(pre, KeyOf(n))
       /\ n \in Range(csv.rows)

\* C2: the file never holds two rows with the same (Date, Country) key,
\* whatever runs came before.
C2_UniqueKeys ==
  \A j, k \in 1..Len(csv.rows) :
    KeyOf(csv.rows[j]) = KeyOf(csv.rows[k]) => j = k

\* C2 witness: a run has merged new records into a file that held some of
\* their keys, and the file holds several rows.
C2_Witness ==
  /\ Saved
  /\ Len(csv.rows) > 2
  /\ \E n \in NewRows : RowsAt(pre, KeyOf(n)) # {}

\* C3 (as claimed): every row of a file the run wrote has its total equal to
\* the sum of its three fuels.
C3_TotalsRecomputed ==
  Saved =>
    \A k \in 1..Len(csv.rows) :
      csv.rows[k].Total_Fossil_GWh =
        csv.rows[k].Lignite_GWh + csv.rows[k].Hard_Coal_GWh + csv.rows[k].Gas_GWh

\* C4 (as claimed): whatever fails for one country, the run goes through
\* every country and saves what it gathered.
C4_FailureIsolated ==
  RunEnded =>
    /\ Len(log) = Len(COUNTRIES)
    /\ all_data # << >> => outcome = "success"

\* The latest date the file the run found holds for country c (0: none).
LatestStored(c) ==
  LET ords == {ParseIso(r.Date) : r \in Range(RowsOfCountry(pre, c))}
  IN IF ords = {} THEN 0 ELSE SetMax(ords)

\* C5 (as claimed): every country processed starts the day after its own
\* latest stored date, or at the configured start when it has no record.
C5_ResumeAlways ==
  \A k \in 1..Len(log) :
    log[k].start = IF LatestStored(log[k].country) > 0
                   THEN Strftime(LatestStored(log[k].country) + 1)
                   ELSE start_date

\* C5 (amended): in a run that computed the incremental map, every country
\* processed starts the day after its own latest stored date, or at the
\* configured start when the file holds no record of it; in a run without
\* the map every country starts at the configured start.
C5_ResumeWhenIncremental ==
  \A k \in 1..Len(log) :
    log[k].start = IF ~incremental_map.isNone /\ LatestStored(log[k].country) > 0
                   THEN Strftime(LatestStored(log[k].country) + 1)
                   ELSE start_date

\* C5 witness: in one incremental run a country resumed after its latest
\* date, which is not the other country's, while another started at the
\* configured start.
C5_Witness ==
  /\ ~incremental_map.isNone
  /\ Len(log) >= 2
  /\ LatestStored(log[1].country) = 0
  /\ LatestStored(log[2].country) > 0
  /\ log[2].start = Strftime(LatestStored(log[2].country) + 1)
  /\ log[1].start = start_date
  /\ log[1].start # log[2].start

\* C6: a country is skipped exactly when its start date is after the end
\* date; a skipped country is not requested, contributes no record, and its
\* rows in a saved file are those the run found; and the loop goes on to the
\* next country after every country it has dealt with.
C6_SkipRule ==
  /\ outcome # "none" => Len(log) = i - 1
  /\ \A k \in 1..Len(log) :
       /\ log[k].country = COUNTRIES[k]
       /\ log[k].skipped <=> ParseIso(log[k].start) > ParseIso(end_date)
       /\ log[k].skipped =>
            /\ ~log[k].requested
            /\ \A n \in NewRows : n.Country # log[k].country
            /\ Saved => RowsOfCountry(csv, log[k].country)
                          = RowsOfCountry(pre, log[k].country)
       /\ ~log[k].skipped => log[k].requested

\* C6 witness: a run skipped the first country, whose stored rows stand in
\* the file it saved, and went on to fetch and save the second.
C6_Witness ==
  /\ Saved
  /\ Len(log) >= 2
  /\ log[1].skipped
  /\ RowsOfCountry(pre, log[1].country) # << >>
  /\ ~log[2].skipped
  /\ \E n \in NewRows : n.Country = log[2].country

\* A file the run cannot use as history: missing, unreadable, without a
\* Date or a Country column, or with a date that does not parse.
Unusable(f) ==
  \/ ~f.exists
  \/ ~f.readable
  \/ "Date" \notin f.columns
  \/ "Country" \notin f.columns
  \/ ~DatesParse(ReadCsv(f))

\* C10 (as claimed): a run that finds an unusable file goes as a run that
\* finds none: every country starts at the configured start, what it saves
\* is the merge of its new records with nothing, and nothing is raised once
\* the loop over the countries is through.
C10_UnusableIsNoHistory ==
  (Unusable(pre) /\ outcome # "none") =>
    /\ \A k \in 1..Len(log) : log[k].start = start_date
    /\ Saved => csv = ToCsv(Merge(None, CombinedNew(all_data)))
    /\ (pc = "done" /\ outcome = "raised") => i <= Len(COUNTRIES)

\* C7 (as claimed): validate_data returns on every series aggregate_daily
\* produces; it never raises.
C7_NeverRaises == vout.state # "raised"

\* The maximal runs <<a, b>> of rows with a value of col under 0.001 GWh.
ZeroRuns(rows, col) ==
  LET zero(k) == ColValue(rows[k], col) < ZeroEpsilon
      n == Len(rows)
  IN {ab \in (1..n) \X (1..n) :
        /\ ab[1] <= ab[2]
        /\ \A k \in ab[1]..ab[2] : zero(k)
        /\ ab[1] = 1 \/ ~zero(ab[1] - 1)
        /\ ab[2] = n \/ ~zero(ab[2] + 1)}

\* The zero-run warnings the claim asks for: one per maximal run of more
\* than 5 rows, from the date of its first row to the date of its last.
ClaimedZeroWarnings(rows, col) ==
  {Warning("zero", col, Strftime(rows[ab[1]].Date.ord),
           Strftime(rows[ab[2]].Date.ord), ab[2] - ab[1] + 1, << >>) :
     ab \in {r \in ZeroRuns(rows, col) : r[2] - r[1] + 1 > 5}}

\* C8 (as claimed): per fuel column, the zero-run warnings validate_data
\* returns are exactly those of the maximal runs longer than 5, each once,
\* with the dates of the run's first and last record and its length.
C8_ZeroRunWarnings ==
  vout.state = "returned" =>
    \A c \in 1..Len(CheckCols) :
      LET got == SelectSeq(vout.warnings,
                           LAMBDA w : w.kind = "zero" /\ w.col = CheckCols[c])
          claimed == ClaimedZeroWarnings(vin.rows, CheckCols[c])
      IN Range(got) = claimed /\ Len(got) = Cardinality(claimed)

\* The calendar days missing between the first and the last date of rows.
MissingDays(rows) ==
  LET present == {rows[k].Date.ord : k \in 1..Len(rows)}
  IN (SetMin(present)..SetMax(present)) \ present

\* C9 (as claimed): no gap warning for a series without a missing day;
\* otherwise exactly one, which lists exactly the k missing days when
\* k < 10, and gives k and the first and last date when k >= 10.
C9_GapWarning ==
  vout.state = "returned" =>
    LET gaps == SelectSeq(vout.warnings,
                          LAMBDA w : w.kind \in {"missing_list", "missing_count"})
        missing == SeqOfSet(MissingDays(vin.rows))
        present == {vin.rows[k].Date.ord : k \in 1..Len(vin.rows)}
    IN IF missing = << >> THEN gaps = << >>
       ELSE /\ Len(gaps) = 1
            /\ IF Len(missing) < 10
               THEN /\ gaps[1].kind = "missing_list"
                    /\ gaps[1].dates = [k \in 1..Len(missing) |-> Strftime(missing[k])]
               ELSE /\ gaps[1].kind = "missing_count"
                    /\ gaps[1].count = Len(missing)
                    /\ gaps[1].from = Strftime(SetMin(present))
                    /\ gaps[1].to = Strftime(SetMax(present))

\* C11: a run that reaches the end of the loop with no new records leaves the
\* file exactly as it found it and ends in the "no new data" outcome; a run
\* left by an exception before any record was gathered leaves the file
\* untouched as well; and the success outcome is only reached with new
\* records.
C11_NoNewDataNoWrite ==
  RunEnded =>
    /\ all_data = << >> => csv = pre
    /\ (all_data = << >> /\ i > Len(COUNTRIES)) => outcome = "nodata"
    /\ outcome = "success" => all_data # << >>
    /\ outcome = "nodata" => all_data = << >>

\* C11 witness: a run over a file that holds records ended with no new data,
\* one country having been skipped and another requested in vain.
C11_Witness ==
  /\ RunEnded
  /\ outcome = "nodata"
  /\ pre.exists
  /\ pre.rows # << >>
  /\ csv = pre
  /\ \E k \in 1..Len(log) : log[k].skipped
  /\ \E k \in 1..Len(log) : log[k].requested

\* C12 (as claimed): every interval aggregate_daily multiplies a sample by is
\* above 0 and at most 1.0 hour; with two samples or more the first interval
\* equals the second; a single sample gets exactly 1.0 hour.
C12_IntervalsInRange ==
  intervals # << >> =>
    /\ \A k \in 1..Len(intervals) :
         0 < intervals[k] /\ intervals[k] <= TicksPerHour
    /\ Len(intervals) >= 2 => intervals[1] = intervals[2]
    /\ Len(intervals) = 1 => intervals[1] = TicksPerHour

\* C13: merging the same new records a second time into the dataset the
\* first merge saved gives that dataset again: the same rows, with the same
\* values, in the same order.
C13_MergeIdempotent ==
  (pc = "merge" /\ runs = 2) => (outcome = "success" /\ csv = pre)

\* C13 witness: the second merge has acted on a dataset that holds the new
\* records next to records of the dataset the first merge found.
C13_Witness ==
  /\ pc = "merge"
  /\ runs = 2
  /\ csv = pre
  /\ NewRows \subseteq Range(csv.rows)
  /\ \E r \in Range(csv.rows) : r \notin NewRows
  /\ Len(all_data) = Len(COUNTRIES)

\* Whether every new record of the run lies in the window requested for its
\* country: not before the country's start, not after the end date.
InWindow ==
  \A n \in NewRows :
    \A k \in 1..Len(log) :
      log[k].country = n.Country =>
        /\ ~StrGreater(log[k].start, n.Date)
        /\ ~StrGreater(n.Date, end_date)

\* C14: in a run that computed the incremental map, every country the file
\* holds records of starts strictly after its latest stored date; and when
\* the new records all lie in the requested windows, every record the run
\* found is, once the run is over, still the only record of its key, with
\* the values it had.
C14_IncrementalKeepsRecords ==
  ~incremental_map.isNone =>
    /\ \A k \in 1..Len(log) :
         LatestStored(log[k].country) > 0 =>
           StrGreater(log[k].start, Strftime(LatestStored(log[k].country)))
    /\ (RunEnded /\ InWindow) =>
         \A r \in Range(pre.rows) : RowsAt(csv, KeyOf(r)) = {r}

\* C14 witness: an incremental run has saved new records, all in their
\* windows, of a country the file already held records of.
C14_Witness ==
  /\ ~incremental_map.isNone
  /\ Saved
  /\ InWindow
  /\ \E n \in NewRows :
       /\ LatestStored(n.Country) > 0
       /\ n \in Range(csv.rows)
       /\ n \notin Range(pre.rows)
  /\ \A r \in Range(pre.rows) : r \in Range(csv.rows)

====
